---- MODULE Spec2Model ----
(***************************************************************************)
(* A model of src/rust/src/lib.rs (crate raw_processor): the RAW decode    *)
(* strategy chains (rust_convert_raw_to_jpg, rust_process_raf_file), the   *)
(* grayscale thumbnail extractor (rust_raw_to_grayscale) and the two       *)
(* perceptual hashes (rust_compute_average_hash,                           *)
(* rust_compute_perceptual_hash).                                          *)
(*                                                                         *)
(* External tools (exiftool, dcraw, dcraw_emu), the rawloader decoder, the *)
(* image codec and the filesystem are the environment: every outcome they  *)
(* can produce is a nondeterministic choice of the action that calls them. *)
(* std::fs::remove_file on a path the call may delete is taken to succeed  *)
(* when the file exists (its result is discarded by the code).             *)
(***************************************************************************)
EXTENDS Integers, Sequences, FiniteSets, TLC

(***************************************************************************)
(* Program constants and model bounds                                      *)
(***************************************************************************)
\* lib.rs:18  const TIMEOUT_SECONDS: u64 = 4
TIMEOUT_SECONDS == 4

\* lib.rs:88  metadata.len() > 10000
MIN_PREVIEW_BYTES == 10000

\* Longest time (in seconds) one external-tool run or one in-process decode
\* is allowed to take in the model.
MaxToolTime == 2

\* A run is either immediate or slow.
Durations == {0, MaxToolTime}

(***************************************************************************)
(* Paths.  A source path is a record (directory, file stem, extension); an *)
(* extension is a sequence of one-character strings so that               *)
(* to_lowercase is computed character by character.  Destination and       *)
(* temporary paths are kept as rendered strings.                           *)
(***************************************************************************)
RECURSIVE Str(_)
Str(s) == IF s = <<>> THEN "" ELSE Head(s) \o Str(Tail(s))

ToLowerChar(ch) ==
    CASE ch = "A" -> "a" [] ch = "C" -> "c" [] ch = "D" -> "d"
      [] ch = "E" -> "e" [] ch = "F" -> "f" [] ch = "G" -> "g"
      [] ch = "N" -> "n" [] ch = "R" -> "r" [] ch = "W" -> "w"
      [] OTHER -> ch

\* str::to_lowercase
to_lowercase(s) == [i \in DOMAIN s |-> ToLowerChar(s[i])]

MkPath(dir, stem, hasExt, ext) ==
    [dir |-> dir, stem |-> stem, hasExt |-> hasExt, ext |-> ext]

PathStr(p) ==
    p.dir \o "/" \o p.stem \o (IF p.hasExt THEN "." \o Str(p.ext) ELSE "")

\* Variant of is_specific_raw_format that lower-cases the extension only.
is_specific_raw_format_ExtOnly(p, format) ==
    IF p.hasExt THEN to_lowercase(p.ext) = format ELSE FALSE

\* lib.rs:22-27
is_specific_raw_format(p, format) ==
    IF p.hasExt THEN to_lowercase(p.ext) = to_lowercase(format) ELSE FALSE

\* lib.rs:260-264  the lower-cased extension, "" when there is none
ext_of(p) == IF p.hasExt THEN Str(to_lowercase(p.ext)) ELSE ""

\* lib.rs:108-110  <dir>/thumb_<file name> with its extension replaced by jpg
thumb_path(p) == p.dir \o "/" \o "thumb_" \o p.stem \o ".jpg"

\* lib.rs:129  format!("{}.ppm", jpg_path)
temp_ppm(jpg_path) == jpg_path \o ".ppm"

\* lib.rs:488  format!("{}.tiff", jpg_path)
temp_tiff(jpg_path) == jpg_path \o ".tiff"

\* lib.rs:581  format!("{}.temp.jpg", path)
temp_jpg(p) == PathStr(p) \o ".temp.jpg"

RAF == <<"r", "a", "f">>

SourcePaths ==
    { MkPath("in", "a", TRUE, <<"R", "A", "F">>),
      MkPath("in", "a", TRUE, <<"a", "r", "w">>),
      MkPath("in", "a", TRUE, <<"C", "R", "2">>),
      MkPath("in", "a", TRUE, <<"c", "r", "3">>),
      MkPath("in", "a", TRUE, <<"N", "e", "f">>),
      MkPath("in", "a", TRUE, <<"d", "n", "g">>),
      MkPath("in", "a", FALSE, <<>>) }

DestPaths == {"out/x.jpg"}

(***************************************************************************)
(* The filesystem: a finite map from path strings to file contents.  A     *)
(* content records who wrote the file (a call, or "pre" for a file that    *)
(* was there before any call), whether it is longer than                   *)
(* MIN_PREVIEW_BYTES, and whether the image codec can open it.             *)
(***************************************************************************)
Calls == {"c1", "c2"}

Tools == {"exiftool", "dcraw", "dcraw_emu"}

MkFile(by, len, img) == [by |-> by, len |-> len, img |-> img]

\* File lengths on either side of the threshold of lib.rs:88.
Lens == {MIN_PREVIEW_BYTES, MIN_PREVIEW_BYTES + 1}

Exists(f, name) == name \in DOMAIN f

WriteFile(f, name, content) ==
    [x \in DOMAIN f \cup {name} |-> IF x = name THEN content ELSE f[x]]

\* std::fs::remove_file (result discarded)
RemoveFile(f, name) == [x \in DOMAIN f \ {name} |-> f[x]]

EmptyFs == [x \in {} |-> MkFile("pre", 0, FALSE)]

VARIABLES
    args,       \* args[c]: the call's function and arguments
    pc,         \* pc[c]: where the call is
    jpg,        \* jpg[c]: the jpg_path the chain writes to
    chain,      \* chain[c]: "raf" (rust_process_raf_file) or "shared"
    tag,        \* tag[c]: index into preview_tags in extract_preview_with_exiftool
    clock,      \* clock[c]: seconds since `start = Instant::now()`
    last,       \* last[c]: status of the tool run whose output is being handled,
                \* "none" when no output is pending
    ret,        \* ret[c]: the boolean the last strategy returned
    inproc,     \* inproc[c]: how try_rawloader_processing ended, "none" if not run
    outcome,    \* outcome[c]: how the decode chain ended, "none" while it runs
    result,     \* result[c]: what the exported function returned to the caller
    log,        \* log[c]: the tools and decoders invoked so far, in order
    fs,         \* the filesystem
    present,    \* the external tools installed
    image,      \* the array handed to the hash functions
    avgHash,    \* result of rust_compute_average_hash
    percHash,   \* result of rust_compute_perceptual_hash
    raw_image,  \* the RawImage handed to process_and_save_image
    saved,      \* result of process_and_save_image
    query,      \* the arguments of a direct is_specific_raw_format call
    classified  \* result of that call

chainVars == <<args, pc, jpg, chain, tag, clock, last, ret, inproc, outcome,
               result, log, fs, present>>
hashVars == <<image, avgHash, percHash>>
sensorVars == <<raw_image, saved>>
classifyVars == <<query, classified>>
vars == <<chainVars, hashVars, sensorVars, classifyVars>>

(***************************************************************************)
(* The perceptual hashes, lib.rs:651-730.  An image is a rows x cols array *)
(* of u8 samples, px[y][x] with y in 0..rows-1 and x in 0..cols-1.  A hash *)
(* is a sequence of the characters "0" and "1".                            *)
(***************************************************************************)
MkImage(rows, cols, px) == [rows |-> rows, cols |-> cols, px |-> px]

NoImage == MkImage(0, 0, <<>>)

\* PyResult<String>
HashOk(h) == [called |-> TRUE, ok |-> TRUE, hash |-> h, err |-> ""]
HashErr(msg) == [called |-> TRUE, ok |-> FALSE, hash |-> <<>>, err |-> msg]
NotCalled == [called |-> FALSE, ok |-> FALSE, hash |-> <<>>, err |-> ""]

\* The samples of rows y0..y1-1 and columns x0..x1-1 in row-major order.
Samples(img, y0, y1, x0, x1) ==
    [k \in 1 .. ((y1 - y0) * (x1 - x0)) |->
        img.px[y0 + ((k - 1) \div (x1 - x0))][x0 + ((k - 1) % (x1 - x0))]]

\* `sum += pixel as u32` over a sequence of samples (lib.rs:659-664,
\* lib.rs:704-712).  The accumulator is a u32; a sum of u8 samples reaches
\* 2^32 only past 16 million samples, so the addition is the integers'.
RECURSIVE SumU32(_)
SumU32(s) == IF s = <<>> THEN 0 ELSE Head(s) + SumU32(Tail(s))

\* Variant of AverageBit comparing with > instead of >=.
AverageBit_Strict(pixel, avg) == IF pixel > avg THEN "1" ELSE "0"

\* Variant of AverageBit with the comparison turned round.
AverageBit_Inverted(pixel, avg) == IF pixel <= avg THEN "0" ELSE "1"

\* lib.rs:672  the character pushed for one pixel
AverageBit(pixel, avg) == IF pixel >= avg THEN "1" ELSE "0"

\* lib.rs:654  the shape test of rust_compute_average_hash
AverageShapeOk(rows, cols) == ~(rows # 8 \/ cols # 8)

\* lib.rs:652-681
rust_compute_average_hash(img) ==
    IF ~AverageShapeOk(img.rows, img.cols)
    THEN HashErr("Image must be 8x8 for average hash")
    ELSE LET all == Samples(img, 0, img.rows, 0, img.cols)
             avg == SumU32(all) \div 64
         IN  HashOk([k \in DOMAIN all |-> AverageBit(all[k], avg)])

\* lib.rs:690
REGIONS == 8

\* lib.rs:699-714  region_values[i * REGIONS + j], kept as the exact
\* numerator `sum` of `sum as f32 / count as f32`: every region of one image
\* has the same count, and sum < 2^24, so the f32 quotients compare as the
\* sums do.
RegionSum(img, i, j) ==
    LET region_height == img.rows \div REGIONS
        region_width == img.cols \div REGIONS
    IN  SumU32(Samples(img, i * region_height, (i + 1) * region_height,
                       j * region_width, (j + 1) * region_width))

region_values(img) ==
    [k \in 1 .. (REGIONS * REGIONS) |->
        RegionSum(img, (k - 1) \div REGIONS, (k - 1) % REGIONS)]

\* lib.rs:719-721  sorted_values[REGIONS * REGIONS / 2] (0-based)
Median(values) ==
    SortSeq(values, LAMBDA a, b : a < b)[(REGIONS * REGIONS) \div 2 + 1]

\* Variant of PerceptualBit comparing with >= instead of >.
PerceptualBit_AtLeast(val, median) == IF val >= median THEN "1" ELSE "0"

\* lib.rs:726
PerceptualBit(val, median) == IF val > median THEN "1" ELSE "0"

\* Variant of PerceptualShapeOk joining the two tests with && instead of ||.
PerceptualShapeOk_And(rows, cols) == ~(rows # 32 /\ cols # 32)

\* lib.rs:686  the shape test of rust_compute_perceptual_hash
PerceptualShapeOk(rows, cols) == ~(rows # 32 \/ cols # 32)

\* lib.rs:684-730
rust_compute_perceptual_hash(img) ==
    IF ~PerceptualShapeOk(img.rows, img.cols)
    THEN HashErr("Image must be 32x32 for perceptual hash")
    ELSE LET vals == region_values(img)
             median == Median(vals)
         IN  HashOk([k \in DOMAIN vals |-> PerceptualBit(vals[k], median)])

HashIdle ==
    /\ image = NoImage
    /\ avgHash = NotCalled
    /\ percHash = NotCalled

(***************************************************************************)
(* The in-process sensor decoder, process_and_save_image (lib.rs:508-575). *)
(* A RawImage has a width, a height and its samples, either u16 integers   *)
(* or f32 values; an f32 sample is kept as a whole number of quarters      *)
(* (-2 is -0.5, 4 is 1.0).  The raster is px[y][x] = <<r, g, b>>.          *)
(***************************************************************************)
MkRawImage(width, height, kind, data) ==
    [width |-> width, height |-> height, kind |-> kind, data |-> data]

NoRawImage == MkRawImage(0, 0, "Integer", <<>>)

MkRaster(width, height, px) == [width |-> width, height |-> height, px |-> px]

NoRaster == MkRaster(0, 0, <<>>)

\* Result<(), Box<dyn Error>> together with what was encoded: the raster
\* built and, when the image was resized, the bounds passed to resize.
SaveOk(raster, resize) ==
    [called |-> TRUE, ok |-> TRUE, raster |-> raster, resize |-> resize, err |-> ""]
SaveErr(msg) ==
    [called |-> TRUE, ok |-> FALSE, raster |-> NoRaster, resize |-> <<>>, err |-> msg]
NotSaved ==
    [called |-> FALSE, ok |-> FALSE, raster |-> NoRaster, resize |-> <<>>, err |-> ""]

\* lib.rs:525  ((data[idx] as f32 / 65535.0).powf(0.45) * 255.0) as u8,
\* tabulated for the u16 samples the model uses (the products are 0.0,
\* 136.65, 186.67 and 255.0).
ToneInteger(v) ==
    CASE v = 0 -> 0
      [] v = 16384 -> 136
      [] v = 32768 -> 186
      [] v = 65535 -> 255

\* lib.rs:546  data[idx].max(0.0).min(1.0), on quarters
ClampUnit(q) == IF q < 0 THEN 0 ELSE IF q > 4 THEN 4 ELSE q

\* lib.rs:546  (clamped.powf(0.45) * 255.0) as u8, tabulated for the
\* quarters (the products are 0.0, 136.65, 186.67, 224.04 and 255.0).
ToneFloat(q) ==
    CASE ClampUnit(q) = 0 -> 0
      [] ClampUnit(q) = 1 -> 136
      [] ClampUnit(q) = 2 -> 186
      [] ClampUnit(q) = 3 -> 224
      [] ClampUnit(q) = 4 -> 255

\* Variant of BayerColor for a BGGR tile (red and blue exchanged).
BayerColor_BGGR(value, y, x) ==
    LET pattern_idx == (y % 2) * 2 + (x % 2)
    IN  CASE pattern_idx = 0 -> <<value \div 2, value \div 2, value>>
          [] pattern_idx \in {1, 2} -> <<value \div 2, value, value \div 2>>
          [] OTHER -> <<value, value \div 2, value \div 2>>

\* lib.rs:528-533 and 549-554  the colour of one pixel from its position in
\* the 2x2 tile
BayerColor(value, y, x) ==
    LET pattern_idx == (y % 2) * 2 + (x % 2)
    IN  CASE pattern_idx = 0 -> <<value, value \div 2, value \div 2>>
          [] pattern_idx \in {1, 2} -> <<value \div 2, value, value \div 2>>
          [] OTHER -> <<value \div 2, value \div 2, value>>

\* ImageBuffer::new: every pixel starts as Rgb([0, 0, 0])
BlankPixel == <<0, 0, 0>>

\* lib.rs:567  if width > 2000 || height > 2000
RESIZE_LIMIT == 2000

\* Variant of SampleReadable that reads one index too far.
SampleReadable_Inclusive(idx, len) == idx <= len

\* lib.rs:523 and 544  if idx < data.len()
SampleReadable(idx, len) == idx < len

\* lib.rs:520-538 and 541-559  the pixel at (x, y): converted from sample
\* idx = y * width + x when the data reaches that far, otherwise left as
\* ImageBuffer::new made it.
DecodedPixel(raw, y, x) ==
    LET idx == y * raw.width + x
    IN  IF SampleReadable(idx, Len(raw.data))
        THEN BayerColor(IF raw.kind = "Integer" THEN ToneInteger(raw.data[idx + 1])
                                                ELSE ToneFloat(raw.data[idx + 1]),
                        y, x)
        ELSE BlankPixel

\* lib.rs:508-575.  save_ok: whether img.save_with_format succeeds.
process_and_save_image(raw, save_ok) ==
    LET img_buffer ==
            [y \in 0 .. (raw.height - 1) |->
                [x \in 0 .. (raw.width - 1) |-> DecodedPixel(raw, y, x)]]
        resize == IF raw.width > RESIZE_LIMIT \/ raw.height > RESIZE_LIMIT
                  THEN <<raw.width \div 2, raw.height \div 2>>
                  ELSE <<>>
    IN  IF save_ok
        THEN SaveOk(MkRaster(raw.width, raw.height, img_buffer), resize)
        ELSE SaveErr("io")

SensorIdle ==
    /\ raw_image = NoRawImage
    /\ saved = NotSaved

(***************************************************************************)
(* Direct calls of is_specific_raw_format (lib.rs:21-27), an exported      *)
(* function.                                                               *)
(***************************************************************************)
MkQuery(path, format) == [path |-> path, format |-> format]

NoQuery == MkQuery(MkPath("", "", FALSE, <<>>), <<>>)

Answer(b) == [called |-> TRUE, answer |-> b]

NotAsked == [called |-> FALSE, answer |-> FALSE]

ClassifyIdle ==
    /\ query = NoQuery
    /\ classified = NotAsked

(***************************************************************************)
(* Calls.  fn is the exported function called: "convert" is                *)
(* rust_convert_raw_to_jpg(path, jpg_path), "grayscale" is                 *)
(* rust_raw_to_grayscale(path) (its jpg_path argument is unused).          *)
(***************************************************************************)
MkCall(fn, path, jpg_path) == [fn |-> fn, path |-> path, jpg_path |-> jpg_path]

NoCall == MkCall("none", MkPath("", "", FALSE, <<>>), "")

InFlight(c) == pc[c] \notin {"idle", "returned"}

Returned(c) == pc[c] = "returned"

\* The temporary artifacts a call may create: the tool's thumb_*.jpg, the
\* captured-stream files, and rust_raw_to_grayscale's intermediate JPEG.
StreamTemps(c) == {temp_ppm(jpg[c]), temp_tiff(jpg[c])}

TempPaths(c) ==
    {thumb_path(args[c].path)} \cup StreamTemps(c)
        \cup (IF args[c].fn = "grayscale" THEN {temp_jpg(args[c].path)} ELSE {})

(***************************************************************************)
(* Bookkeeping shared by the steps                                         *)
(***************************************************************************)
Goto(c, p) == pc' = [pc EXCEPT ![c] = p]

\* One invocation (an external command or the in-process decoder) of
\* strategy number s, taking d seconds.
Invoked(c, s, tool, mode, d) ==
    /\ log' = [log EXCEPT ![c] = Append(@, [s |-> s, tool |-> tool, mode |-> mode])]
    /\ clock' = [clock EXCEPT ![c] = @ + d]

\* Command::new(tool)...output(): Err when the tool cannot be spawned,
\* otherwise the exit status.
RunStatuses(tool) ==
    IF tool \in present THEN {"exit_fail", "ok"} ELSE {"spawn_err"}

\* What a tool that exits successfully may have left at `name`: nothing
\* new, or a file of its own.
ToolOutputs(f, c, st, name) ==
    IF st = "ok"
    THEN {f} \cup {WriteFile(f, name, MkFile(c, len, img)) :
                      len \in Lens, img \in BOOLEAN}
    ELSE {f}

envUnchanged == UNCHANGED <<args, present, hashVars, sensorVars, classifyVars>>

\* Variant of Succeeded that lets a run that could not be spawned through.
Succeeded_UnlessExitFail(st) == st # "exit_fail"

\* `if let Ok(output) = result { if output.status.success() {` (lib.rs:84-85,
\* 105-106, 126-127, ...): the tool was spawned and exited with status 0.
Succeeded(st) == st = "ok"

(***************************************************************************)
(* extract_preview_with_exiftool, lib.rs:69-97.  One step is one iteration *)
(* of the loop over preview_tags: the exiftool run and the test of its     *)
(* result.  The function is strategy 1 of rust_process_raf_file and the    *)
(* first half of try_extract_embedded_preview.                             *)
(***************************************************************************)
\* Variant of preview_tags asking for the raw-converted JPEG first.
preview_tags_JpgFirst ==
    <<"-JpgFromRaw", "-PreviewImage", "-ThumbnailImage", "-OtherImage",
      "-EmbeddedImage">>

\* lib.rs:71-77
preview_tags ==
    <<"-PreviewImage", "-JpgFromRaw", "-ThumbnailImage", "-OtherImage",
      "-EmbeddedImage">>

\* lib.rs:85-91  status.success() && exists(jpg_path) && len > 10000
PreviewAccepted(f, st, name) ==
    /\ Succeeded(st)
    /\ Exists(f, name)
    /\ f[name].len > MIN_PREVIEW_BYTES

extract_preview_with_exiftool(c) ==
    /\ pc[c] = "exiftool"
    /\ \E d \in Durations, st \in RunStatuses("exiftool") :
         \E f1 \in ToolOutputs(fs, c, st, jpg[c]) :
           /\ fs' = f1
           /\ Invoked(c, 1, "exiftool", preview_tags[tag[c]], d)
           /\ IF PreviewAccepted(f1, st, jpg[c])
              THEN /\ ret' = [ret EXCEPT ![c] = TRUE]
                   /\ Goto(c, "r1")
                   /\ UNCHANGED tag
              ELSE IF tag[c] < Len(preview_tags)
              THEN /\ tag' = [tag EXCEPT ![c] = @ + 1]
                   /\ UNCHANGED <<ret, pc>>
              ELSE /\ Goto(c, IF chain[c] = "raf" THEN "r1" ELSE "preview_dcraw")
                   /\ UNCHANGED <<ret, tag>>
    /\ UNCHANGED <<jpg, chain, last, inproc, outcome, result>>
    /\ envUnchanged

(***************************************************************************)
(* Embedded-preview extraction by a conversion tool's -e mode:             *)
(* lib.rs:101-119 (extract_with_dcraw_simple), lib.rs:152-176              *)
(* (extract_with_libraw_fuji), lib.rs:327-345                              *)
(* (try_extract_embedded_preview).  The run of the tool and the handling   *)
(* of the thumb_*.jpg it may have written are two steps.                   *)
(***************************************************************************)
RunThumbTool(c, here, s, tool, next) ==
    /\ pc[c] = here
    /\ \E d \in Durations, st \in RunStatuses(tool) :
         \E f1 \in ToolOutputs(fs, c, st, thumb_path(args[c].path)) :
           /\ fs' = f1
           /\ Invoked(c, s, tool, "-e", d)
           /\ last' = [last EXCEPT ![c] = st]
    /\ Goto(c, next)
    /\ UNCHANGED <<jpg, chain, tag, ret, inproc, outcome, result>>
    /\ envUnchanged

\* lib.rs:112-117 and lib.rs:338-343: copy the thumb to jpg_path and remove
\* it; when the copy fails the thumb is left where it is.
\* The result is <<filesystem, success>>.
CopyThumb(f, c, thumb, dest, copy_ok) ==
    IF copy_ok
    THEN <<RemoveFile(WriteFile(f, dest, [f[thumb] EXCEPT !.by = c]), thumb), TRUE>>
    ELSE <<f, FALSE>>

\* lib.rs:163-174: the same with the size test, and the thumb removed on
\* every path.
CopyThumbFuji(f, c, thumb, dest, copy_ok) ==
    IF f[thumb].len > MIN_PREVIEW_BYTES /\ copy_ok
    THEN <<RemoveFile(WriteFile(f, dest, [f[thumb] EXCEPT !.by = c]), thumb), TRUE>>
    ELSE <<RemoveFile(f, thumb), FALSE>>

TakeThumb(c, here, fuji, okpc, failpc) ==
    /\ pc[c] = here
    /\ LET thumb == thumb_path(args[c].path) IN
       IF Succeeded(last[c]) /\ Exists(fs, thumb)
       THEN \E copy_ok \in BOOLEAN :
              LET r == IF fuji THEN CopyThumbFuji(fs, c, thumb, jpg[c], copy_ok)
                               ELSE CopyThumb(fs, c, thumb, jpg[c], copy_ok)
              IN /\ fs' = r[1]
                 /\ ret' = [ret EXCEPT ![c] = r[2]]
                 /\ Goto(c, IF r[2] THEN okpc ELSE failpc)
       ELSE /\ Goto(c, failpc)
            /\ UNCHANGED <<fs, ret>>
    /\ last' = [last EXCEPT ![c] = "none"]
    /\ UNCHANGED <<jpg, chain, tag, clock, inproc, outcome, result, log>>
    /\ envUnchanged

(***************************************************************************)
(* Stream capture: the tool writes the raster to standard output, the code *)
(* writes it to a temporary file, re-encodes it to jpg_path and removes    *)
(* the temporary file.  The same block stands at lib.rs:122-143, 194-217,  *)
(* 220-243, 353-375, 383-405, 413-435, 457-478 and 481-502.                *)
(***************************************************************************)
RunStreamTool(c, here, s, tool, mode, next) ==
    /\ pc[c] = here
    /\ \E d \in Durations, st \in RunStatuses(tool) :
         /\ Invoked(c, s, tool, mode, d)
         /\ last' = [last EXCEPT ![c] = st]
    /\ Goto(c, next)
    /\ UNCHANGED <<jpg, chain, tag, ret, inproc, outcome, result, fs>>
    /\ envUnchanged

\* How far the block gets: File::create fails, write_all fails, image::open
\* fails, img.save fails (leaving nothing, or a truncated file, at
\* jpg_path), or the JPEG is saved.
StreamOutcomes ==
    {"create_fail", "write_fail", "open_fail", "save_fail", "save_partial", "saved"}

\* Variant of StreamEffect without the clean-up on failure (lib.rs:140).
StreamEffect_KeepOnFailure(f, c, temp, dest, o, len) ==
    IF o = "create_fail"
    THEN f
    ELSE LET created == WriteFile(f, temp, MkFile(c, 0, o \notin {"write_fail", "open_fail"}))
         IN  IF o = "saved"
             THEN RemoveFile(WriteFile(created, dest, MkFile(c, len, TRUE)), temp)
             ELSE IF o = "save_partial"
             THEN WriteFile(created, dest, MkFile(c, 0, FALSE))
             ELSE created

\* lib.rs:129-141.  The filesystem after the block.
StreamEffect(f, c, temp, dest, o, len) ==
    IF o = "create_fail"
    THEN f
    ELSE LET created == WriteFile(f, temp, MkFile(c, 0, o \notin {"write_fail", "open_fail"}))
             encoded == CASE o = "saved" -> WriteFile(created, dest, MkFile(c, len, TRUE))
                          [] o = "save_partial" -> WriteFile(created, dest, MkFile(c, 0, FALSE))
                          [] OTHER -> created
         IN  RemoveFile(encoded, temp)

ConvertStream(c, here, temp, okpc, failpc) ==
    /\ pc[c] = here
    /\ IF Succeeded(last[c])
       THEN \E o \in StreamOutcomes, len \in Lens :
              /\ fs' = StreamEffect(fs, c, temp, jpg[c], o, len)
              /\ ret' = [ret EXCEPT ![c] = (o = "saved")]
              /\ Goto(c, IF o = "saved" THEN okpc ELSE failpc)
       ELSE /\ Goto(c, failpc)
            /\ UNCHANGED <<fs, ret>>
    /\ last' = [last EXCEPT ![c] = "none"]
    /\ UNCHANGED <<jpg, chain, tag, clock, inproc, outcome, result, log>>
    /\ envUnchanged

\* lib.rs:99-146
extract_with_dcraw_simple(c) ==
    \/ RunThumbTool(c, "simple_thumb", 2, "dcraw", "simple_copy")
    \/ TakeThumb(c, "simple_copy", FALSE, "r2", "simple_quick")
    \/ RunStreamTool(c, "simple_quick", 2, "dcraw", "-c -h -q 0", "simple_conv")
    \/ ConvertStream(c, "simple_conv", temp_ppm(jpg[c]), "r2", "r2")

\* lib.rs:178-191  exiftool -b -JpgFromRaw -w jpg_path path
LibrawExiftool(c) ==
    /\ pc[c] = "libraw_exiftool"
    /\ \E d \in Durations, st \in RunStatuses("exiftool") :
         \E f1 \in ToolOutputs(fs, c, st, jpg[c]) :
           /\ fs' = f1
           /\ Invoked(c, 3, "exiftool", "-JpgFromRaw", d)
           /\ ret' = [ret EXCEPT ![c] = PreviewAccepted(f1, st, jpg[c])]
           /\ Goto(c, IF PreviewAccepted(f1, st, jpg[c]) THEN "r3" ELSE "libraw_fast")
    /\ UNCHANGED <<jpg, chain, tag, last, inproc, outcome, result>>
    /\ envUnchanged

\* lib.rs:150-246
extract_with_libraw_fuji(c) ==
    \/ RunThumbTool(c, "libraw_thumb", 3, "dcraw_emu", "libraw_copy")
    \/ TakeThumb(c, "libraw_copy", TRUE, "r3", "libraw_exiftool")
    \/ LibrawExiftool(c)
    \/ RunStreamTool(c, "libraw_fast", 3, "dcraw_emu",
                     "-c -M -h -q 0 -fbdd 1 -o 0", "libraw_fast_conv")
    \/ ConvertStream(c, "libraw_fast_conv", temp_ppm(jpg[c]), "r3", "libraw_xtrans")
    \/ RunStreamTool(c, "libraw_xtrans", 3, "dcraw_emu",
                     "-M -q 0 -h -f -fbdd 1", "libraw_xtrans_conv")
    \/ ConvertStream(c, "libraw_xtrans_conv", temp_ppm(jpg[c]), "r3", "r3")

\* lib.rs:320-348  (its first half is extract_preview_with_exiftool)
try_extract_embedded_preview(c) ==
    \/ RunThumbTool(c, "preview_dcraw", 1, "dcraw", "preview_copy")
    \/ TakeThumb(c, "preview_copy", FALSE, "r1", "r1")

\* lib.rs:351-378
try_sony_arw_processing(c) ==
    \/ RunStreamTool(c, "sony", 2, "dcraw", "-c -w -h -q 0 -o 0", "sony_conv")
    \/ ConvertStream(c, "sony_conv", temp_ppm(jpg[c]), "r2", "r2")

\* lib.rs:381-408
try_canon_cr_processing(c) ==
    \/ RunStreamTool(c, "canon", 2, "dcraw", "-c -w -h -q 0", "canon_conv")
    \/ ConvertStream(c, "canon_conv", temp_ppm(jpg[c]), "r2", "r2")

\* lib.rs:411-438
try_nikon_nef_processing(c) ==
    \/ RunStreamTool(c, "nikon", 2, "dcraw", "-c -w -h -q 0 -o 1", "nikon_conv")
    \/ ConvertStream(c, "nikon_conv", temp_ppm(jpg[c]), "r2", "r2")

\* lib.rs:455-505
try_generic_raw_processing(c) ==
    \/ RunStreamTool(c, "generic_dcraw", 3, "dcraw", "-c -w -h -q 0", "generic_dcraw_conv")
    \/ ConvertStream(c, "generic_dcraw_conv", temp_ppm(jpg[c]), "r3", "generic_emu")
    \/ RunStreamTool(c, "generic_emu", 3, "dcraw_emu", "-T -h -q 0", "generic_emu_conv")
    \/ ConvertStream(c, "generic_emu_conv", temp_tiff(jpg[c]), "r3", "r3")

\* lib.rs:441-452 with process_and_save_image (lib.rs:508-575): decode_file
\* fails, or the raster is built and save_with_format succeeds or fails.
RawloaderOutcomes == {"decode_err", "save_err", "ok"}

try_rawloader_processing(c) ==
    /\ pc[c] = "rawloader"
    /\ \E d \in Durations, o \in RawloaderOutcomes, len \in Lens :
         /\ Invoked(c, 2, "rawloader", "decode_file", d)
         /\ inproc' = [inproc EXCEPT ![c] = o]
         /\ fs' = IF o = "ok" THEN WriteFile(fs, jpg[c], MkFile(c, len, TRUE)) ELSE fs
         /\ ret' = [ret EXCEPT ![c] = (o = "ok")]
    /\ Goto(c, "r2")
    /\ UNCHANGED <<jpg, chain, tag, last, outcome, result>>
    /\ envUnchanged

(***************************************************************************)
(* The decode chains: rust_process_raf_file (lib.rs:31-65) and             *)
(* rust_convert_raw_to_jpg (lib.rs:250-317).  Both have three strategies;  *)
(* after each of the first two the result is tested and then the elapsed   *)
(* time, after the third only the result.                                  *)
(***************************************************************************)
\* Variants of Verdict with a plausible slip, used to test the chain properties:
\* the budget tested before the strategy's result,
Verdict_TimeFirst(r, elapsed, isLast) ==
    IF ~isLast /\ elapsed > TIMEOUT_SECONDS THEN "Timeout"
    ELSE IF r THEN "Success"
    ELSE IF isLast THEN "Exhausted"
    ELSE "Continue"

\* the budget compared with >= instead of >,
Verdict_AtBudget(r, elapsed, isLast) ==
    IF r THEN "Success"
    ELSE IF isLast THEN "Exhausted"
    ELSE IF elapsed >= TIMEOUT_SECONDS THEN "Timeout"
    ELSE "Continue"

\* the budget tested after the last strategy as well.
Verdict_CheckLast(r, elapsed, isLast) ==
    IF r THEN "Success"
    ELSE IF elapsed > TIMEOUT_SECONDS THEN "Timeout"
    ELSE IF isLast THEN "Exhausted"
    ELSE "Continue"

\* no error after the last strategy.
Verdict_NeverExhausted(r, elapsed, isLast) ==
    IF r THEN "Success"
    ELSE IF ~isLast /\ elapsed > TIMEOUT_SECONDS THEN "Timeout"
    ELSE "Continue"

\* lib.rs:38-45, 49-56, 60-64 and lib.rs:269-276, 279-309, 312-316
Verdict(r, elapsed, isLast) ==
    IF r THEN "Success"
    ELSE IF isLast THEN "Exhausted"
    ELSE IF elapsed > TIMEOUT_SECONDS THEN "Timeout"
    ELSE "Continue"

\* The PyResult<bool> of a chain.
ChainResult(v) ==
    CASE v = "Success" -> "Ok(true)"
      [] v = "Timeout" -> "Err(timeout)"
      [] v = "Exhausted" -> "Err(failed)"

\* Variant of FormatStrategy that sends unknown extensions to the Canon
\* profile instead of the in-process decoder.
FormatStrategy_NoFallback(ext) ==
    CASE ext = "arw" -> "sony"
      [] ext = "nef" -> "nikon"
      [] OTHER -> "canon"

\* Variant of FormatStrategy without the Nikon arm.
FormatStrategy_NoNikon(ext) ==
    CASE ext = "arw" -> "sony"
      [] ext \in {"cr2", "cr3"} -> "canon"
      [] OTHER -> "rawloader"

\* lib.rs:279-304  the second strategy of the shared chain, by extension
FormatStrategy(ext) ==
    CASE ext = "arw" -> "sony"
      [] ext \in {"cr2", "cr3"} -> "canon"
      [] ext = "nef" -> "nikon"
      [] OTHER -> "rawloader"

StrategyDone(c, here, isLast, next) ==
    /\ pc[c] = here
    /\ LET v == Verdict(ret[c], clock[c], isLast) IN
       IF v = "Continue"
       THEN /\ Goto(c, next)
            /\ UNCHANGED <<outcome, result>>
       ELSE /\ outcome' = [outcome EXCEPT ![c] = v]
            /\ IF args[c].fn = "grayscale"
               THEN /\ Goto(c, "gray_post")
                    /\ UNCHANGED result
               ELSE /\ Goto(c, "returned")
                    /\ result' = [result EXCEPT ![c] = ChainResult(v)]
    /\ UNCHANGED <<jpg, chain, tag, clock, last, ret, inproc, log, fs>>
    /\ envUnchanged

\* lib.rs:252-257 (and lib.rs:33): pick the chain, start the timer.
StartChain(c, dest) ==
    /\ jpg' = [jpg EXCEPT ![c] = dest]
    /\ chain' = [chain EXCEPT ![c] =
                   IF is_specific_raw_format(args[c].path, RAF) THEN "raf" ELSE "shared"]
    /\ clock' = [clock EXCEPT ![c] = 0]
    /\ tag' = [tag EXCEPT ![c] = 1]
    /\ Goto(c, "exiftool")
    /\ UNCHANGED <<last, ret, inproc, outcome, result, log, fs>>
    /\ envUnchanged

rust_process_raf_file(c) ==
    /\ chain[c] = "raf"
    /\ \/ StrategyDone(c, "r1", FALSE, "simple_thumb")
       \/ StrategyDone(c, "r2", FALSE, "libraw_thumb")
       \/ StrategyDone(c, "r3", TRUE, "r3")

rust_convert_raw_to_jpg(c) ==
    \/ /\ pc[c] = "entry"
       /\ args[c].fn = "convert"
       /\ StartChain(c, args[c].jpg_path)
    \/ /\ chain[c] = "shared"
       /\ \/ StrategyDone(c, "r1", FALSE, FormatStrategy(ext_of(args[c].path)))
          \/ StrategyDone(c, "r2", FALSE, "generic_dcraw")
          \/ StrategyDone(c, "r3", TRUE, "r3")

(***************************************************************************)
(* rust_raw_to_grayscale, lib.rs:579-648                                   *)
(***************************************************************************)
\* lib.rs:589-647: the value returned and whether temp_jpg is removed.
GrayscaleResult(f, temp, v) ==
    IF v = "Success"
    THEN IF Exists(f, temp) /\ f[temp].img THEN "Ok(array)" ELSE "Err(open)"
    ELSE ChainResult(v)

\* Variant of GrayscaleCleanup that removes temp_jpg only after a
\* successful chain.
GrayscaleCleanup_SuccessOnly(f, temp, v) ==
    IF v = "Success" THEN RemoveFile(f, temp) ELSE f

\* lib.rs:617, 638, 644
GrayscaleCleanup(f, temp, v) == RemoveFile(f, temp)

rust_raw_to_grayscale(c) ==
    \/ /\ pc[c] = "entry"
       /\ args[c].fn = "grayscale"
       /\ StartChain(c, temp_jpg(args[c].path))
    \/ /\ pc[c] = "gray_post"
       /\ result' = [result EXCEPT ![c] = GrayscaleResult(fs, jpg[c], outcome[c])]
       /\ fs' = GrayscaleCleanup(fs, jpg[c], outcome[c])
       /\ Goto(c, "returned")
       /\ UNCHANGED <<jpg, chain, tag, clock, last, ret, inproc, outcome, log>>
       /\ envUnchanged

Step(c) ==
    \/ rust_convert_raw_to_jpg(c)
    \/ rust_raw_to_grayscale(c)
    \/ rust_process_raf_file(c)
    \/ extract_preview_with_exiftool(c)
    \/ try_extract_embedded_preview(c)
    \/ extract_with_dcraw_simple(c)
    \/ extract_with_libraw_fuji(c)
    \/ try_sony_arw_processing(c)
    \/ try_canon_cr_processing(c)
    \/ try_nikon_nef_processing(c)
    \/ try_rawloader_processing(c)
    \/ try_generic_raw_processing(c)

Next == \E c \in Calls : Step(c)

(***************************************************************************)
(* Initial states                                                          *)
(***************************************************************************)

\* The files there before the calls: none, or an earlier output at a
\* destination.
InitialFiles(dests) ==
    {EmptyFs} \cup {WriteFile(EmptyFs, d, MkFile("pre", MIN_PREVIEW_BYTES + 1, TRUE)) :
                      d \in dests}

CallsInit(made) ==
    /\ pc = [c \in Calls |-> IF args[c].fn = "none" THEN "idle" ELSE "entry"]
    /\ jpg = [c \in Calls |-> ""]
    /\ chain = [c \in Calls |-> "none"]
    /\ tag = [c \in Calls |-> 1]
    /\ clock = [c \in Calls |-> 0]
    /\ last = [c \in Calls |-> "none"]
    /\ ret = [c \in Calls |-> FALSE]
    /\ inproc = [c \in Calls |-> "none"]
    /\ outcome = [c \in Calls |-> "none"]
    /\ result = [c \in Calls |-> "none"]
    /\ log = [c \in Calls |-> <<>>]

AllCalls ==
    {MkCall(fn, p, d) : fn \in {"convert"}, p \in SourcePaths, d \in DestPaths}
        \cup {MkCall("grayscale", p, "") : p \in SourcePaths}

\* One call at a time.
Init ==
    /\ args \in {[c \in Calls |-> IF c = "c1" THEN a ELSE NoCall] : a \in AllCalls}
    /\ CallsInit(args)
    /\ fs \in InitialFiles(DestPaths)
    /\ present \in SUBSET Tools
    /\ HashIdle
    /\ SensorIdle
    /\ ClassifyIdle

Spec == Init /\ [][Next]_vars

\* Every tool invocation returns and the calling thread keeps running
\* (spec section 5: each invocation blocks until the subprocess exits).
SpecLive == Spec /\ WF_vars(Next)

(***************************************************************************)
(* Two calls in flight at once.  The core keeps no state between calls     *)
(* (spec section 5), so concurrent calls are independent runs of the same  *)
(* steps, interleaved, over one filesystem.                                *)
(***************************************************************************)
DngPath == MkPath("in", "a", TRUE, <<"d", "n", "g">>)

ConcurrentCalls ==
    {MkCall("grayscale", DngPath, ""), MkCall("convert", DngPath, "out/x.jpg")}

InitConc ==
    /\ args \in [Calls -> ConcurrentCalls]
    /\ CallsInit(args)
    /\ fs = EmptyFs
    /\ present = {}
    /\ HashIdle
    /\ SensorIdle
    /\ ClassifyIdle

\* The steps a call on DngPath can take.
StepConc(c) ==
    \/ rust_convert_raw_to_jpg(c)
    \/ rust_raw_to_grayscale(c)
    \/ extract_preview_with_exiftool(c)
    \/ try_extract_embedded_preview(c)
    \/ try_rawloader_processing(c)
    \/ try_generic_raw_processing(c)

NextConc == \E c \in Calls : StepConc(c)

SpecConc == InitConc /\ [][NextConc]_vars

(***************************************************************************)
(* Properties of the decode chains                                         *)
(***************************************************************************)
Stepped(c) == pc'[c] # pc[c] \/ log'[c] # log[c]

StrategyEnds == {"r1", "r2", "r3"}

ChainOver(p) == p \in {"gray_post", "returned"}

\* The first step of the second and of the third strategy.
SecondStrategies == {"simple_thumb", "sony", "canon", "nikon", "rawloader"}
ThirdStrategies == {"libraw_thumb", "generic_dcraw"}

StrategiesTried(c) == {log[c][i].s : i \in DOMAIN log[c]}

\* C1: strategies run strictly in order and the first success wins: the
\* step at which a strategy succeeds ends that strategy, the chain then ends
\* with Success whatever the elapsed time, and nothing is invoked after it.
C1_FirstSuccessWins ==
    [][\A c \in Calls :
         /\ \A i, j \in DOMAIN log'[c] : i < j => log'[c][i].s <= log'[c][j].s
         /\ (~ret[c] /\ ret'[c]) => pc'[c] \in StrategyEnds
         /\ ret[c] => /\ ret'[c]
                      /\ log'[c] = log[c]
                      /\ Stepped(c) => /\ outcome'[c] = "Success"
                                       /\ ChainOver(pc'[c])]_vars

\* C1 witness: a chain that ended with Success in its first strategy, after
\* more than the budget had elapsed.
C1_Witness ==
    \E c \in Calls :
        /\ outcome[c] = "Success"
        /\ clock[c] > TIMEOUT_SECONDS
        /\ StrategiesTried(c) = {1}

\* C2: when one of the first two strategies has failed the elapsed time is
\* tested: over the budget the chain ends with Timeout and nothing more is
\* invoked, otherwise the next strategy starts.  The chain never ends with
\* Timeout from inside a strategy.
C2_TimeoutBetweenStrategies ==
    [][\A c \in Calls :
         /\ (pc[c] \in {"r1", "r2"} /\ ~ret[c] /\ Stepped(c)) =>
              IF clock[c] > TIMEOUT_SECONDS
              THEN /\ outcome'[c] = "Timeout"
                   /\ ChainOver(pc'[c])
                   /\ log'[c] = log[c]
              ELSE /\ outcome'[c] = "none"
                   /\ pc'[c] \in (IF pc[c] = "r1" THEN SecondStrategies
                                                ELSE ThirdStrategies)
         /\ outcome[c] = "Timeout" => log'[c] = log[c]
         /\ (outcome[c] # "Timeout" /\ outcome'[c] = "Timeout") =>
              pc[c] \in {"r1", "r2"}
         /\ (pc[c] \notin StrategyEnds /\ ~ChainOver(pc[c]) /\ Stepped(c)) =>
              outcome'[c] = "none"]_vars

\* C2 witness: a chain ended by the budget after its first strategy.
C2_Witness ==
    \E c \in Calls :
        /\ outcome[c] = "Timeout"
        /\ Returned(c)
        /\ StrategiesTried(c) = {1}

\* C3 as stated: a chain that ends with no success and more than the budget
\* elapsed reports Timeout, never Exhausted.
C3_Original ==
    \A c \in Calls : outcome[c] = "Exhausted" => clock[c] <= TIMEOUT_SECONDS

\* C3 amended: Exhausted is reported exactly when the third strategy has
\* failed, whatever the elapsed time then; Timeout exactly when the budget
\* is found exceeded at the test after the first or the second strategy.
C3_ExhaustedAfterLastStrategy ==
    [][\A c \in Calls :
         /\ (outcome[c] = "none" /\ outcome'[c] = "Exhausted") =>
              /\ pc[c] = "r3"
              /\ ~ret[c]
              /\ StrategiesTried(c) = {1, 2, 3}
         /\ (outcome[c] = "none" /\ outcome'[c] = "Timeout") =>
              /\ pc[c] \in {"r1", "r2"}
              /\ ~ret[c]
              /\ clock[c] > TIMEOUT_SECONDS
         /\ (pc[c] = "r3" /\ ~ret[c] /\ Stepped(c)) => outcome'[c] = "Exhausted"
         /\ (pc[c] \in {"r1", "r2"} /\ ~ret[c] /\ clock[c] > TIMEOUT_SECONDS
               /\ Stepped(c)) => outcome'[c] = "Timeout"]_vars

\* C3 witness: Exhausted reported with the budget exceeded.
C3_Witness ==
    \E c \in Calls : outcome[c] = "Exhausted" /\ clock[c] > TIMEOUT_SECONDS

\* The extensions with a dedicated chain or a tuned profile (lib.rs:252,
\* lib.rs:280-297); every other path takes the in-process decoder as its
\* second strategy.
TunedExts == {"raf", "arw", "cr2", "cr3", "nef"}

\* A chain that ran to its end with no external tool installed.
EndedWithoutTools(c) ==
    /\ Returned(c)
    /\ present = {}
    /\ outcome[c] # "Timeout"

OwnTemps(c, names) == {n \in names \cap DOMAIN fs : fs[n].by = c}

\* C9: when a strategy has returned, and when the call has, no thumb_*.jpg,
\* .ppm or .tiff file written by the call is left.
C9_NoTempArtifactLeft ==
    \A c \in Calls :
        (pc[c] \in StrategyEnds \/ ChainOver(pc[c])) =>
            OwnTemps(c, {thumb_path(args[c].path)} \cup StreamTemps(c)) = {}

(***************************************************************************)
(* The hash functions under test: an image is drawn from a family of       *)
(* patterns over the sample levels, in every shape around 8x8 and 32x32,   *)
(* and each function is applied to it once.                                *)
(***************************************************************************)
\* Number of sample levels, spread evenly over 0..255.
NumLevels == 4

Levels == {(255 * k) \div (NumLevels - 1) : k \in 0 .. (NumLevels - 1)}

\* How far a dimension may be off the required one.
ShapeSlack == 1

Shapes ==
    {<<8 + a, 8 + b>> : a, b \in (-ShapeSlack) .. ShapeSlack}
        \cup {<<32 + a, 32 + b>> : a, b \in (-ShapeSlack) .. ShapeSlack}

\* Side of one cell of a block pattern: a 4x4 block of a 32x32 image, one
\* pixel of an 8x8 image.
Cell(rows) == IF rows > 16 THEN 4 ELSE 1

Patterns == {"flat", "checker", "halves", "spot", "ramp", "stripes", "noise"}

PatternPixel(kind, lo, hi, rows, y, x) ==
    LET i == y \div Cell(rows)
        j == x \div Cell(rows)
    IN  CASE kind = "flat" -> lo
          [] kind = "checker" -> IF (i + j) % 2 = 0 THEN lo ELSE hi
          [] kind = "halves" -> IF i < 4 THEN lo ELSE hi
          [] kind = "spot" -> IF i = 2 /\ j = 5 THEN hi ELSE lo
          [] kind = "ramp" -> (lo + 3 * (i * 8 + j)) % 256
          [] kind = "stripes" -> IF x % 2 = 0 THEN lo ELSE hi
          [] kind = "noise" -> (lo + 37 * y * y + 101 * x + hi * (x + y)) % 256

PatternImage(kind, lo, hi, rows, cols) ==
    MkImage(rows, cols,
            [y \in 0 .. (rows - 1) |->
                [x \in 0 .. (cols - 1) |-> PatternPixel(kind, lo, hi, rows, y, x)]])

Images ==
    {PatternImage(kind, lo, hi, sh[1], sh[2]) :
        kind \in Patterns, lo \in Levels, hi \in Levels, sh \in Shapes}

ChainIdle ==
    /\ args = [c \in Calls |-> NoCall]
    /\ CallsInit(args)
    /\ fs = EmptyFs
    /\ present = {}

InitHash ==
    /\ image \in Images
    /\ avgHash = NotCalled
    /\ percHash = NotCalled
    /\ ChainIdle
    /\ SensorIdle
    /\ ClassifyIdle

CallAverageHash ==
    /\ ~avgHash.called
    /\ avgHash' = rust_compute_average_hash(image)
    /\ UNCHANGED <<image, percHash, chainVars, sensorVars, classifyVars>>

CallPerceptualHash ==
    /\ ~percHash.called
    /\ percHash' = rust_compute_perceptual_hash(image)
    /\ UNCHANGED <<image, avgHash, chainVars, sensorVars, classifyVars>>

NextHash == CallAverageHash \/ CallPerceptualHash

SpecHash == InitHash /\ [][NextHash]_vars

(***************************************************************************)
(* Properties of the hash functions                                        *)
(***************************************************************************)
HashChars(h) == {h[k] : k \in DOMAIN h}

\* The two central values of the sorted block sums (0-based positions 31
\* and 32).
LowerCentral(values) == SortSeq(values, LAMBDA a, b : a < b)[32]
UpperCentral(values) == SortSeq(values, LAMBDA a, b : a < b)[33]

\* C5: on a 32x32 input the block-median hash has 64 bits in row-major
\* block order, the bit of a block being 1 iff the block's mean is greater
\* than the average of the two central values of the sorted block means
\* (means and median are compared through the block sums, 16 times the
\* means: mean > (a + b) / 2 iff 2 * sum > 16a + 16b).
C5_MedianOfTwoCentralValues ==
    (percHash.called /\ image.rows = 32 /\ image.cols = 32) =>
        LET vals == region_values(image) IN
        /\ percHash.ok
        /\ Len(percHash.hash) = 64
        /\ \A k \in 1 .. 64 :
             percHash.hash[k] = "1" <=>
                 2 * vals[k] > LowerCentral(vals) + UpperCentral(vals)

\* C6: on a 32x32 checkerboard of all-0 and all-255 blocks the median lies
\* strictly between the two block means and the hash has 1 exactly at the
\* 255 blocks.
C6_CheckerboardAlternates ==
    \A lo, hi \in {0, 255} :
        (lo # hi /\ image = PatternImage("checker", lo, hi, 32, 32)
            /\ percHash.called) =>
            LET vals == region_values(image) IN
            /\ percHash.ok
            /\ 0 < Median(vals) /\ Median(vals) < 16 * 255
            /\ \A k \in 1 .. 64 : percHash.hash[k] = "1" <=> vals[k] = 16 * 255

\* The sum of all samples of an image.
RECURSIVE TotalUpTo(_, _)
TotalUpTo(img, n) ==
    IF n = 0 THEN 0
    ELSE img.px[(n - 1) \div img.cols][(n - 1) % img.cols] + TotalUpTo(img, n - 1)

\* C7: on an 8x8 input the average hash is 64 characters, each "0" or "1",
\* the character at row-major position k being "1" iff pixel k is at least
\* the truncated mean of the 64 samples.
C7_AverageHashBits ==
    (avgHash.called /\ image.rows = 8 /\ image.cols = 8) =>
        /\ avgHash.ok
        /\ Len(avgHash.hash) = 64
        /\ HashChars(avgHash.hash) \subseteq {"0", "1"}
        /\ \A k \in 1 .. 64 :
             avgHash.hash[k] = "1" <=>
                 image.px[(k - 1) \div 8][(k - 1) % 8] >= TotalUpTo(image, 64) \div 64

\* C7 witness: the hash of an 8x8 image with samples on both sides of the
\* mean.
C7_Witness ==
    /\ avgHash.called
    /\ image.rows = 8 /\ image.cols = 8
    /\ HashChars(avgHash.hash) = {"0", "1"}

\* C8: the average hash of an input that is not 8x8, and the block-median
\* hash of an input that is not 32x32, is an error carrying no hash.
C8_NoImplicitResize ==
    /\ (avgHash.called /\ <<image.rows, image.cols>> # <<8, 8>>) =>
           (~avgHash.ok /\ avgHash.hash = <<>>)
    /\ (percHash.called /\ <<image.rows, image.cols>> # <<32, 32>>) =>
           (~percHash.ok /\ percHash.hash = <<>>)

\* C8 witness: both functions have refused a 31x32 input.
C8_Witness ==
    /\ image.rows = 31 /\ image.cols = 32
    /\ percHash.called /\ ~percHash.ok
    /\ avgHash.called /\ ~avgHash.ok

(***************************************************************************)
(* Properties of concurrent calls                                          *)
(***************************************************************************)
\* C10: temporary paths are unique per call, so a step of one call never
\* removes or rewrites a temporary file that another call, still in flight,
\* has written.
C10_NoCrossCallInterference ==
    [][\A a \in Calls :
         \A n \in TempPaths(a) \cap DOMAIN fs :
             (InFlight(a) /\ fs[n].by = a /\ ~Stepped(a)) =>
                 (n \in DOMAIN fs' /\ fs'[n] = fs[n])]_vars

(***************************************************************************)
(* Properties of the strategies' outputs                                   *)
(***************************************************************************)
\* The last tool or decoder the call invoked.
LastRun(c) == log[c][Len(log[c])]

\* Embedded-preview extractions: exiftool with a preview tag, and the
\* conversion tools' -e mode.
PreviewModes == {"-e"} \cup {preview_tags[i] : i \in DOMAIN preview_tags}

PreviewSucceeded(c) ==
    /\ pc[c] \in StrategyEnds
    /\ ret[c]
    /\ LastRun(c).mode \in PreviewModes

\* C11: when an embedded-preview extraction (by exiftool, or by the -e mode
\* of dcraw or dcraw_emu) has reported success, the destination exists and
\* is longer than the 10000-byte threshold.
C11_PreviewAboveThreshold ==
    \A c \in Calls :
        PreviewSucceeded(c) =>
            /\ Exists(fs, jpg[c])
            /\ fs[jpg[c]].len > MIN_PREVIEW_BYTES

\* C12: a strategy that has reported failure has left no file of its own at
\* the destination, and a chain that ended with Timeout or Exhausted leaves
\* no file written by this call at the destination.
C12_NoPartialResult ==
    \A c \in Calls :
        ((pc[c] \in StrategyEnds /\ ~ret[c]) \/ outcome[c] \in {"Timeout", "Exhausted"}) =>
            ~(Exists(fs, jpg[c]) /\ fs[jpg[c]].by = c)

\* C14: once rust_raw_to_grayscale has returned, with an array, with the
\* chain's failure or timeout, or with a failure to open the converted
\* image, <path>.temp.jpg does not exist.
C14_TempJpgDeleted ==
    \A c \in Calls :
        (Returned(c) /\ args[c].fn = "grayscale") =>
            /\ result[c] \in {"Ok(array)", "Err(open)", "Err(timeout)", "Err(failed)"}
            /\ ~Exists(fs, temp_jpg(args[c].path))

\* C14 witness: a grayscale call that returned an array, the chain having
\* written the intermediate JPEG.
C14_Witness ==
    \E c \in Calls :
        /\ Returned(c)
        /\ args[c].fn = "grayscale"
        /\ result[c] = "Ok(array)"
        /\ jpg[c] = temp_jpg(args[c].path)
        /\ log[c] # <<>>

(***************************************************************************)
(* Properties of missing tools, termination and strategy order             *)
(***************************************************************************)
\* Where the code goes on after a tool run that did not succeed.
AfterFailedRun(p) ==
    CASE p = "simple_copy" -> "simple_quick"
      [] p = "libraw_copy" -> "libraw_exiftool"
      [] p = "libraw_fast_conv" -> "libraw_xtrans"
      [] p = "generic_dcraw_conv" -> "generic_emu"
      [] p = "preview_copy" -> "r1"
      [] p \in {"simple_conv", "sony_conv", "canon_conv", "nikon_conv"} -> "r2"
      [] p \in {"libraw_xtrans_conv", "generic_emu_conv"} -> "r3"

CallerResults ==
    {"none", "Ok(true)", "Err(timeout)", "Err(failed)", "Ok(array)", "Err(open)"}

\* C15: running a tool that is not installed changes no file, yields no
\* success and ends neither the chain nor the call; the code then goes on
\* exactly where it goes on after a non-zero exit status; and the caller
\* only ever receives a chain-level result.
C15_MissingToolIsFailedStrategy ==
    [][\A c \in Calls :
         /\ (log'[c] # log[c] /\ log'[c][Len(log'[c])].tool \in Tools \ present) =>
              /\ fs' = fs
              /\ ~ret'[c]
              /\ last'[c] \in {"spawn_err", "none"}
              /\ outcome'[c] = "none"
              /\ result'[c] = "none"
              /\ InFlight(c)'
         /\ (last[c] \in {"spawn_err", "exit_fail"} /\ Stepped(c)) =>
              /\ fs' = fs
              /\ ~ret'[c]
              /\ log'[c] = log[c]
              /\ pc'[c] = AfterFailedRun(pc[c])
              /\ outcome'[c] = "none"
              /\ result'[c] = "none"
         /\ result'[c] \in CallerResults]_vars

\* C15 witness: with no tool installed, a Sony file went through all three
\* strategies and the caller got the chain's failure.
C15_Witness ==
    \E c \in Calls :
        /\ present = {}
        /\ Returned(c)
        /\ ext_of(args[c].path) = "arw"
        /\ StrategiesTried(c) = {1, 2, 3}
        /\ result[c] = "Err(failed)"

\* C16: a call invokes at most eleven tools or decoders (the five preview
\* tags and six more), its chain has ended exactly when it holds one of the
\* three terminal outcomes, a conversion returns that outcome, and every
\* call made eventually returns with one of the three.
C16_Terminates ==
    /\ [](\A c \in Calls :
            /\ Len(log[c]) <= Len(preview_tags) + 6
            /\ ChainOver(pc[c]) <=> outcome[c] \in {"Success", "Timeout", "Exhausted"}
            /\ outcome[c] \in {"none", "Success", "Timeout", "Exhausted"}
            /\ (Returned(c) /\ args[c].fn = "convert") =>
                  result[c] = ChainResult(outcome[c]))
    /\ <>(\A c \in Calls :
            args[c].fn # "none" =>
                /\ Returned(c)
                /\ outcome[c] \in {"Success", "Timeout", "Exhausted"})

\* C16 witness: a conversion that returned Exhausted after the longest
\* chain, eleven invocations.
C16_Witness ==
    \E c \in Calls :
        /\ Returned(c)
        /\ args[c].fn = "convert"
        /\ outcome[c] = "Exhausted"
        /\ Len(log[c]) = Len(preview_tags) + 6

IsPrefix(s, t) == Len(s) <= Len(t) /\ \A i \in DOMAIN s : s[i] = t[i]

Run(s, tool, mode) == [s |-> s, tool |-> tool, mode |-> mode]

\* The five exiftool runs of the embedded-preview extraction, in order.
TagRuns ==
    << Run(1, "exiftool", "-PreviewImage"), Run(1, "exiftool", "-JpgFromRaw"),
       Run(1, "exiftool", "-ThumbnailImage"), Run(1, "exiftool", "-OtherImage"),
       Run(1, "exiftool", "-EmbeddedImage") >>

\* The one second strategy of the shared chain for an extension.
SecondRun(ext) ==
    CASE ext = "arw" -> Run(2, "dcraw", "-c -w -h -q 0 -o 0")
      [] ext \in {"cr2", "cr3"} -> Run(2, "dcraw", "-c -w -h -q 0")
      [] ext = "nef" -> Run(2, "dcraw", "-c -w -h -q 0 -o 1")
      [] OTHER -> Run(2, "rawloader", "decode_file")

SharedOrder(ext) ==
    TagRuns \o << Run(1, "dcraw", "-e"), SecondRun(ext),
                  Run(3, "dcraw", "-c -w -h -q 0"), Run(3, "dcraw_emu", "-T -h -q 0") >>

FujiOrder ==
    TagRuns \o << Run(2, "dcraw", "-e"), Run(2, "dcraw", "-c -h -q 0"),
                  Run(3, "dcraw_emu", "-e"), Run(3, "exiftool", "-JpgFromRaw"),
                  Run(3, "dcraw_emu", "-c -M -h -q 0 -fbdd 1 -o 0"),
                  Run(3, "dcraw_emu", "-M -q 0 -h -f -fbdd 1") >>

\* C20: in the Fuji chain the tags are tried in the order PreviewImage,
\* JpgFromRaw, ThumbnailImage, OtherImage, EmbeddedImage; a run that leaves a
\* new destination file above the threshold wins, a winning run leaves a
\* destination above the threshold and ends the first strategy with no
\* further tag tried; the minimal dcraw decode starts only after all five
\* tags have failed, and the emulator decode only after that.
C20_FujiTagOrder ==
    [][\A c \in Calls :
         chain'[c] = "raf" =>
            /\ IsPrefix(log'[c], FujiOrder)
            /\ (pc[c] = "exiftool" /\ log'[c] # log[c]) =>
                 /\ log'[c] = Append(log[c], TagRuns[tag[c]])
                 /\ (fs' # fs /\ fs'[jpg[c]].len > MIN_PREVIEW_BYTES) => ret'[c]
                 /\ ret'[c] => /\ Exists(fs', jpg[c])
                               /\ fs'[jpg[c]].len > MIN_PREVIEW_BYTES
                               /\ pc'[c] = "r1"
                 /\ ~ret'[c] => IF tag[c] < 5
                                THEN pc'[c] = "exiftool" /\ tag'[c] = tag[c] + 1
                                ELSE pc'[c] = "r1"
            /\ (pc'[c] = "simple_thumb" /\ pc[c] # "simple_thumb") =>
                 /\ log[c] = TagRuns
                 /\ ~ret[c]
            /\ (pc'[c] = "libraw_thumb" /\ pc[c] # "libraw_thumb") =>
                 /\ Len(log[c]) > Len(TagRuns)
                 /\ ~ret[c]]_vars

\* C20 witness: a Fuji file whose third tag, ThumbnailImage, won.
C20_Witness ==
    \E c \in Calls :
        /\ chain[c] = "raf"
        /\ pc[c] = "r1"
        /\ ret[c]
        /\ Len(log[c]) = 3
        /\ LastRun(c).mode = "-ThumbnailImage"
        /\ fs[jpg[c]].len > MIN_PREVIEW_BYTES

(***************************************************************************)
(* More properties of the hash functions                                   *)
(***************************************************************************)
AllSamplesEqual(img) ==
    \A y \in 0 .. (img.rows - 1), x \in 0 .. (img.cols - 1) :
        img.px[y][x] = img.px[0][0]

\* C17: the average hash of an 8x8 input whose 64 samples are all equal is
\* the string of 64 characters "1".
C17_AllEqualGivesAllOnes ==
    (avgHash.called /\ image.rows = 8 /\ image.cols = 8 /\ AllSamplesEqual(image)) =>
        /\ avgHash.ok
        /\ avgHash.hash = [k \in 1 .. 64 |-> "1"]

\* C17 witness: the hash of the 8x8 image of 64 samples of 255.
C17_Witness ==
    /\ avgHash.called
    /\ image.rows = 8 /\ image.cols = 8
    /\ AllSamplesEqual(image)
    /\ image.px[0][0] = 255
    /\ Len(avgHash.hash) = 64

(***************************************************************************)
(* The sensor decoder under test: a RawImage of a few sizes, of either     *)
(* sample type, whose data may be shorter or longer than width * height,   *)
(* is decoded and saved once.                                              *)
(***************************************************************************)
\* The most samples a RawImage may lack.
MaxMissing == 2

\* <<width, height>>; the last one is wider than RESIZE_LIMIT.
SensorDims == {<<1, 1>>, <<2, 2>>, <<3, 2>>, <<RESIZE_LIMIT + 1, 1>>}

IntegerSamples == {0, 16384, 65535}

\* In quarters: -0.5, 0.25, 0.5, 1.5
FloatSamples == {-2, 1, 2, 6}

\* Samples alternating between a and b.
SensorData(len, a, b) == [k \in 1 .. len |-> IF k % 2 = 1 THEN a ELSE b]

DataLengths(dim) ==
    {n \in ((dim[1] * dim[2]) - MaxMissing) .. ((dim[1] * dim[2]) + 1) : n >= 0}

RawImagesOf(dim, kind, samples) ==
    {MkRawImage(dim[1], dim[2], kind, SensorData(n, a, b)) :
        n \in DataLengths(dim), a \in samples, b \in samples}

RawImages ==
    UNION {RawImagesOf(dim, "Integer", IntegerSamples)
               \cup RawImagesOf(dim, "Float", FloatSamples) : dim \in SensorDims}

InitSensor ==
    /\ raw_image \in RawImages
    /\ saved = NotSaved
    /\ ChainIdle
    /\ HashIdle
    /\ ClassifyIdle

\* try_rawloader_processing's call of process_and_save_image (lib.rs:445) on
\* the decoded RawImage, writing the JPEG when the save succeeds.
CallProcessAndSave ==
    /\ ~saved.called
    /\ \E save_ok \in BOOLEAN :
         /\ saved' = process_and_save_image(raw_image, save_ok)
         /\ fs' = IF save_ok
                  THEN WriteFile(fs, "out/x.jpg", MkFile("c1", MIN_PREVIEW_BYTES + 1, TRUE))
                  ELSE fs
    /\ UNCHANGED <<args, pc, jpg, chain, tag, clock, last, ret, inproc, outcome,
                   result, log, present, raw_image, hashVars, classifyVars>>

NextSensor == CallProcessAndSave

SpecSensor == InitSensor /\ [][NextSensor]_vars

\* C13: when the samples are fewer than width * height the decoder returns
\* an error and produces no raster.
C13_ShortDataIsDecodeError ==
    (saved.called /\ Len(raw_image.data) < raw_image.width * raw_image.height) =>
        /\ ~saved.ok
        /\ saved.raster = NoRaster
        /\ ~Exists(fs, "out/x.jpg")

(***************************************************************************)
(* The classifier under test: every upper/lower-case spelling of a few     *)
(* extensions, no extension and the empty extension, against every         *)
(* spelling of a few format tags.                                          *)
(***************************************************************************)
UpperChar(ch) ==
    CASE ch = "a" -> "A" [] ch = "e" -> "E" [] ch = "f" -> "F"
      [] ch = "n" -> "N" [] ch = "r" -> "R" [] ch = "w" -> "W"
      [] OTHER -> ch

Spellings(w) ==
    {t \in [DOMAIN w -> {w[i] : i \in DOMAIN w} \cup {UpperChar(w[i]) : i \in DOMAIN w}] :
        \A i \in DOMAIN w : t[i] \in {w[i], UpperChar(w[i])}}

ExtWords == {<<"r", "a", "f">>, <<"a", "r", "w">>, <<"n", "e", "f">>, <<"r", "a">>}

TagWords == {<<"r", "a", "f">>, <<"n", "e", "f">>, <<"r", "a">>}

QueryPaths ==
    {MkPath("in", "IMG", TRUE, e) : e \in UNION {Spellings(w) : w \in ExtWords}}
        \cup {MkPath("in", "IMG", FALSE, <<>>), MkPath("in", "IMG", TRUE, <<>>)}

QueryFormats == UNION {Spellings(w) : w \in TagWords} \cup {<<>>}

InitClassify ==
    /\ query \in {MkQuery(p, f) : p \in QueryPaths, f \in QueryFormats}
    /\ classified = NotAsked
    /\ ChainIdle
    /\ HashIdle
    /\ SensorIdle

CallIsSpecificRawFormat ==
    /\ ~classified.called
    /\ classified' = Answer(is_specific_raw_format(query.path, query.format))
    /\ UNCHANGED <<query, chainVars, hashVars, sensorVars>>

NextClassify == CallIsSpecificRawFormat

SpecClassify == InitClassify /\ [][NextClassify]_vars

\* Two one-character strings that are the same letter in either case.
SameLetter(a, b) == a = b \/ UpperChar(a) = b \/ a = UpperChar(b)

EqualIgnoringCase(s, t) ==
    Len(s) = Len(t) /\ \A i \in DOMAIN s : SameLetter(s[i], t[i])

\* C18: the predicate answers for every path and tag; the answer is true
\* exactly when the path has an extension that equals the tag up to the
\* case of its letters, so it is the same for every spelling of either; a
\* path with no extension is never classified as any format.
C18_CaseInsensitiveTotal ==
    classified.called =>
        /\ classified.answer \in BOOLEAN
        /\ classified.answer <=>
               (query.path.hasExt /\ EqualIgnoringCase(query.path.ext, query.format))
        /\ ~query.path.hasExt => ~classified.answer

\* C18 witness: "in/IMG.RAF" asked about "raf" is classified as that format.
C18_Witness ==
    /\ classified.called
    /\ PathStr(query.path) = "in/IMG.RAF"
    /\ query.format = <<"r", "a", "f">>
    /\ classified.answer

(***************************************************************************)
(* Properties of the captured-stream files and of the destination          *)
(***************************************************************************)
\* C21: the file holding a tool's captured output (jpg_path + ".ppm" or
\* ".tiff") never outlives the conversion block: whatever the outcome of the
\* write, the decode and the save, it does not exist once the block is done,
\* so none exists when a strategy or the call returns.
C21_StreamTempDeleted ==
    \A c \in Calls :
        args[c].fn # "none" =>
            /\ ~Exists(fs, temp_ppm(jpg[c]))
            /\ ~Exists(fs, temp_tiff(jpg[c]))

\* C21 witness: a strategy returned failure after the save of the
\* destination failed part-way, with no captured-stream file left.
C21_Witness ==
    \E c \in Calls :
        /\ pc[c] \in StrategyEnds
        /\ ~ret[c]
        /\ Exists(fs, jpg[c])
        /\ fs[jpg[c]] = MkFile(c, 0, FALSE)
        /\ LastRun(c).mode \notin PreviewModes
        /\ ~Exists(fs, temp_ppm(jpg[c]))

\* C23: when a strategy has reported success the destination holds a file
\* written during this call, never one that was there before it.
C23_SuccessFileIsFresh ==
    \A c \in Calls :
        (pc[c] \in StrategyEnds /\ ret[c]) =>
            /\ Exists(fs, jpg[c])
            /\ fs[jpg[c]].by = c

(***************************************************************************)
(* Properties of the decoded raster and bit counts of the hashes           *)
(***************************************************************************)
\* The tone-mapped value of sample idx (0-based).
ToneOf(raw, idx) ==
    IF raw.kind = "Integer" THEN ToneInteger(raw.data[idx + 1])
                            ELSE ToneFloat(raw.data[idx + 1])

\* The channel (1 red, 2 green, 3 blue) that dominates at tile position p.
Dominant(p) == CASE p = 0 -> 1 [] p \in {1, 2} -> 2 [] p = 3 -> 3

\* C22: in the decoded raster every pixel (x, y) that has a sample, with
\* tone-mapped value v and tile position p = (y mod 2) * 2 + (x mod 2),
\* carries v (0..255) in the dominant channel of p (red for 0, green for 1
\* and 2, blue for 3) and v \div 2 in the other two.
C22_BayerTileColors ==
    saved.ok =>
        \A y \in 0 .. (raw_image.height - 1), x \in 0 .. (raw_image.width - 1) :
            LET idx == y * raw_image.width + x
                v == ToneOf(raw_image, idx)
                p == (y % 2) * 2 + (x % 2)
            IN  idx < Len(raw_image.data) =>
                    /\ v \in 0 .. 255
                    /\ \A ch \in 1 .. 3 :
                         saved.raster.px[y][x][ch] =
                             IF ch = Dominant(p) THEN v ELSE v \div 2

\* C22 witness: a fully sampled 2x2 image of bright samples was decoded, so
\* all four tile positions carry a colour.
C22_Witness ==
    /\ saved.ok
    /\ raw_image.width = 2 /\ raw_image.height = 2
    /\ Len(raw_image.data) = 4
    /\ saved.raster.px[0][0] = <<255, 127, 127>>
    /\ saved.raster.px[1][1] = <<127, 127, 255>>

Ones(h) == {k \in DOMAIN h : h[k] = "1"}

Zeros(h) == {k \in DOMAIN h : h[k] = "0"}

\* C24: the block-median hash of a 32x32 input has at most 31 characters
\* "1" and at least 33 characters "0", and every block whose mean is the
\* value at sorted position 32 (0-based) has "0".
C24_AtMost31Ones ==
    (percHash.called /\ image.rows = 32 /\ image.cols = 32) =>
        LET vals == region_values(image)
            central == UpperCentral(vals)
        IN
        /\ percHash.ok
        /\ Cardinality(Ones(percHash.hash)) <= 31
        /\ Cardinality(Zeros(percHash.hash)) >= 33
        /\ \A k \in 1 .. 64 : vals[k] = central => percHash.hash[k] = "0"

\* C24 witness: a hash with exactly 31 characters "1".
C24_Witness ==
    /\ percHash.called
    /\ image.rows = 32 /\ image.cols = 32
    /\ Cardinality(Ones(percHash.hash)) = 31

\* C25: the average hash of an 8x8 input has at least one character "1", at
\* the position of every largest sample, and the sum of the 64 samples is
\* at most 64 * 255, far below 2^32 (sum \div 2^16 < 2^16).
C25_AtLeastOneBit ==
    (avgHash.called /\ image.rows = 8 /\ image.cols = 8) =>
        LET all == Samples(image, 0, 8, 0, 8) IN
        /\ avgHash.ok
        /\ Ones(avgHash.hash) # {}
        /\ \A k \in 1 .. 64 :
             (\A j \in 1 .. 64 : all[j] <= all[k]) => avgHash.hash[k] = "1"
        /\ TotalUpTo(image, 64) <= 64 * 255
        /\ TotalUpTo(image, 64) \div 65536 < 65536

\* C25 witness: a hash with exactly one character "1", from an image with a
\* single bright sample.
C25_Witness ==
    /\ avgHash.called
    /\ image.rows = 8 /\ image.cols = 8
    /\ Cardinality(Ones(avgHash.hash)) = 1

====
